---- MODULE Spec2Model ----
(***************************************************************************)
(* YT-Sync (src/yt_sync.py): the job table, the admission queue, the       *)
(* worker pool, the job runner and the catalog store, with the request     *)
(* handlers that touch them.                                               *)
(*                                                                         *)
(* Threads: NWorkers pool workers (_worker) and ONE request thread: the    *)
(* server is http.server.HTTPServer (line 701), which handles one request  *)
(* at a time.  A "with jobs_lock:" block is one atomic action and code     *)
(* between two blocks of one function is a separate action.  A "with       *)
(* data_lock:" block of a handler is one action up to its save_data call,  *)
(* which ends in a second one; the data_lock block of _run_job reads the   *)
(* job table without jobs_lock and is followed read by read.               *)
(***************************************************************************)
EXTENDS Integers, Sequences, FiniteSets, Bags, TLC

\* ------------------------------------------------------------- bounds
\* Spec: add_job calls made in a run (job ids are issued from 1)
MaxJobs == 1
\* Spec: pool size N given to start_thread_pool
NWorkers == 1
\* PoolSpec: add_job calls made in a run
PoolJobs == 2
\* SoloSpec: add_job calls made in a run
SoloJobs == 2
\* LogSpec: add_job calls made in a run
LogJobs == 1
\* LogSpec: most lines a subprocess prints before it closes its output
MaxLines == 62
\* PhaseSpec: add_job calls made in a run
PhaseJobs == 1
\* PhaseSpec: most lines a subprocess prints before it closes its output
PhaseLen == 2

\* ---------------------------------------------------- program constants
\* cap of the rolling log (lines 205-206)
LogCap == 60

Workers == 1..NWorkers

\* PoolSpec: the pool start_thread_pool(2) starts
PoolWorkers == {1, 2}

\* SoloSpec: the pool start_thread_pool(1) starts
SoloWorkers == {1}

\* playlist ids /api/playlist/add can issue (uuid4 modelled as the next unused one)
PlaylistIds == {1}
\* most lines a subprocess prints before it closes its output
LineCounts == {0, 1}

\* Python's None, for the string-valued fields (error) and the video options
None == "None"
\* Python's None for a file path; a path is <<playlist_id, video_id>>: the
\* output template "%(title)s [%(id)s].%(ext)s" under DOWNLOAD_DIR/playlist_id
NoFile == <<>>

VideoIds == {"v1", "v2"}
\* what the remote reports for a playlist URL (fetch_playlist_info): ordered ids
RemoteLists == {<<"v1">>, <<"v2", "v1">>}
\* the video_ids of a /api/download or /api/video/delete-file request
RequestLists == {<<"v1">>, <<"v1", "v2">>}
Qualities == {"best"}
\* audio_only, Python's False and True written as strings (None is "None")
AudioFlags == {"False"}

\* Kinds of output line a subprocess prints in this specification:
\*   plain    "some unrelated line"
\*   dest     "[download] Destination: <path>"
\*   badpct   "[download] 1.2.3% of 1MiB at 1KiB/s ETA 00:01"
\*            (_RE_PROGRESS matches, float("1.2.3") raises ValueError)
\*   progress "[download]  42.5% of ~10.00MiB at 512.00KiB/s ETA 00:20"
\*   merger   "[Merger] Merging formats into \"<path>\""
\*   extract  "[ExtractAudio] Destination: <path>"
\*   blank    ""  (line 200 strips the line end, so a line of spaces is "" too)
\*   indented "   indented text"  (its strip() is "indented text", written
\*            "unindented")
\*   audio    "Found audio stream"  (the word without the "[download]" tag)
\*   dlaudio  "[download] Downloading audio track"
\*   dlvideo  "[download] Downloading video 1 of 2"
AllLines == {"plain", "dest", "badpct", "progress", "merger", "extract", "blank",
             "indented", "audio", "dlaudio", "dlvideo"}
StreamLines == {"dest", "badpct"}

\* LogSpec: the output of a subprocess, line by line: the first line is plain or
\* blank, the second is indented, every later one is blank; the subprocess may
\* exit after any line
OutputLines(n) ==
    IF n = 1 THEN {"plain", "blank"}
    ELSE IF n = 2 THEN {"indented"}
    ELSE {"blank"}

\* PhaseSpec: the output of a subprocess, line by line: a first line the runner
\* recognises, then lines with and without a recognised pattern; the subprocess
\* may exit after any line
ToolLines(n) ==
    IF n = 1 THEN {"progress", "dlaudio", "dlvideo", "merger", "badpct"}
    ELSE IF n = 2 THEN {"plain", "audio", "indented", "extract", "dest"}
    ELSE {"blank", "plain", "dlvideo"}

\* str.strip() of a log line (lines are right-stripped when logged, line 200)
Strip(line) == IF line = "indented" THEN "unindented" ELSE line

\* ------------------------------------------------------------ helpers
Range(s) == {s[i] : i \in 1..Len(s)}

\* position of the job with this id in the (insertion-ordered) job table, 0 if absent
JobIdx(js, id) ==
    IF \E i \in 1..Len(js) : js[i].id = id
    THEN CHOOSE i \in 1..Len(js) : js[i].id = id
    ELSE 0

HasJob(js, id) == JobIdx(js, id) # 0

GetJob(js, id) == js[JobIdx(js, id)]

\* ------------------------------------------------- progress parsing
\* parse_line: a record for a progress line, None otherwise; "raise" stands for
\* the ValueError float() raises on a percentage such as 1.2.3
parse_line(line) ==
    CASE line = "progress" -> [pct |-> 42, size |-> "10.00MiB",
                               speed |-> "512.00KiB/s", eta |-> "00:20"]
      [] line = "badpct" -> [pct |-> -1, size |-> "raise", speed |-> "raise", eta |-> "raise"]
      [] OTHER -> [pct |-> -1, size |-> None, speed |-> None, eta |-> None]

ParseRaises(line) == parse_line(line).size = "raise"

Parsed(line) == parse_line(line).pct >= 0

\* "[download]" in line
HasDownloadTag(line) == line \in {"dest", "badpct", "progress", "dlaudio", "dlvideo"}
\* "audio" in line.lower() ("[extractaudio]" holds the word)
HasAudio(line) == line \in {"audio", "dlaudio", "extract"}
\* "video" in line.lower()
HasVideo(line) == line = "dlvideo"
\* "[merger]" in line.lower()
HasMergerTag(line) == line = "merger"
\* "[extractaudio]" in line.lower()
HasExtractTag(line) == line = "extract"
\* _RE_DEST.search(line)
HasDest(line) == line \in {"dest", "merger", "extract"}

\* ---------------------------------------------------------- job table
\* _update_queue_positions: number the queued jobs 1.. in table order
RECURSIVE Renumber(_, _)
Renumber(js, pos) ==
    IF js = <<>> THEN <<>>
    ELSE IF Head(js).status = "queued"
         THEN <<[Head(js) EXCEPT !.queue_pos = pos]>> \o Renumber(Tail(js), pos + 1)
         ELSE <<Head(js)>> \o Renumber(Tail(js), pos)

UpdateQueuePositions(js) == Renumber(js, 1)

NewJob(id, playlist_id, video_id, quality, audio_only) ==
    [id |-> id, playlist_id |-> playlist_id, video_id |-> video_id,
     quality |-> quality, audio_only |-> audio_only,
     status |-> "queued", queue_pos |-> 0,
     progress |-> 0, speed |-> "", eta |-> "", size |-> "",
     phase |-> "queued", log |-> <<>>,
     started |-> FALSE, finished |-> FALSE, file |-> NoFile, error |-> None]

\* an add_job that puts the new job before the others in the table
AddJobInsertFirst(js, id, playlist_id, video_id, quality, audio_only) ==
    UpdateQueuePositions(<<NewJob(id, playlist_id, video_id, quality, audio_only)>> \o js)

\* add_job, the jobs_lock block (lines 151-161)
AddJobInsert(js, id, playlist_id, video_id, quality, audio_only) ==
    UpdateQueuePositions(Append(js, NewJob(id, playlist_id, video_id, quality, audio_only)))

\* a queue that hands out the newest id first
QueuePutFront(q, id) == <<id>> \o q

\* a put that enqueues the id twice
QueuePutTwice(q, id) == q \o <<id, id>>

\* job_queue.put / job_queue.get of queue.Queue (FIFO)
QueuePut(q, id) == Append(q, id)

QueueHead(q) == Head(q)

QueueRest(q) == Tail(q)

\* the first lock block without the call of _update_queue_positions
RunJobStartNoRenumber(js, id) ==
    [js EXCEPT ![JobIdx(js, id)] =
        [@ EXCEPT !.status = "running", !.started = TRUE, !.phase = "starting"]]

\* the first lock block without the status assignment
RunJobStartKeepsQueued(js, id) ==
    UpdateQueuePositions(
        [js EXCEPT ![JobIdx(js, id)] = [@ EXCEPT !.started = TRUE, !.phase = "starting"]])

\* _run_job, the first jobs_lock block (lines 166-170)
RunJobStart(js, id) ==
    UpdateQueuePositions(
        [js EXCEPT ![JobIdx(js, id)] =
            [@ EXCEPT !.status = "running", !.started = TRUE, !.phase = "starting"]])

\* an error path that also gives up every other unfinished job
SetErrorSweep(js, id, msg) ==
    [i \in 1..Len(js) |->
        IF js[i].id = id \/ js[i].status \in {"queued", "running"}
        THEN [js[i] EXCEPT !.status = "error", !.error = msg, !.finished = TRUE]
        ELSE js[i]]

\* the three places that set a job to error (lines 175-178, 264-267, 130-134)
SetError(js, id, msg) ==
    [js EXCEPT ![JobIdx(js, id)] =
        [@ EXCEPT !.status = "error", !.error = msg, !.finished = TRUE]]

\* an except clause that records nothing
WorkerExceptSilent(js, id, msg) == js

\* _worker's except clause (lines 129-134): only if the job is still in the table
WorkerExcept(js, id, msg) ==
    IF HasJob(js, id) THEN SetError(js, id, msg) ELSE js

\* a cap that keeps the first lines and drops the new one
CapLogKeepOldest(log) ==
    IF Len(log) > LogCap THEN SubSeq(log, 1, LogCap) ELSE log

\* lines 205-206
CapLog(log) ==
    IF Len(log) > LogCap THEN SubSeq(log, Len(log) - LogCap + 1, Len(log)) ELSE log

\* a per-line block that looks for "audio" and "video" in every line, tagged
\* "[download]" or not
ApplyLineAnyTag(j, line) ==
    LET j1 == [j EXCEPT !.log = CapLog(Append(j.log, line))]
        j2 == IF Parsed(line)
              THEN [j1 EXCEPT !.progress = parse_line(line).pct,
                              !.speed = parse_line(line).speed,
                              !.eta = parse_line(line).eta,
                              !.size = parse_line(line).size]
              ELSE j1
        j3 == IF HasAudio(line) THEN [j2 EXCEPT !.phase = "audio"]
              ELSE IF HasVideo(line) THEN [j2 EXCEPT !.phase = "video"]
              ELSE IF HasDownloadTag(line) /\ Parsed(line)
                      /\ j2.phase \in {"starting", "queued"}
                   THEN [j2 EXCEPT !.phase = "downloading"]
                   ELSE j2
        j4 == IF HasMergerTag(line)
              THEN [j3 EXCEPT !.phase = "merging", !.progress = 99, !.speed = "", !.eta = ""]
              ELSE j3
        j5 == IF HasExtractTag(line)
              THEN [j4 EXCEPT !.phase = "converting", !.progress = 99, !.speed = "", !.eta = ""]
              ELSE j4
    IN j5

\* the per-line jobs_lock block (lines 202-223) for a line parse_line accepted
ApplyLine(j, line) ==
    LET j1 == [j EXCEPT !.log = CapLog(Append(j.log, line))]
        j2 == IF Parsed(line)
              THEN [j1 EXCEPT !.progress = parse_line(line).pct,
                              !.speed = parse_line(line).speed,
                              !.eta = parse_line(line).eta,
                              !.size = parse_line(line).size]
              ELSE j1
        \* lines 213-217: "audio" and "video" count only in a "[download]" line
        j3 == IF ~HasDownloadTag(line) THEN j2
              ELSE IF HasAudio(line) THEN [j2 EXCEPT !.phase = "audio"]
              ELSE IF HasVideo(line) THEN [j2 EXCEPT !.phase = "video"]
              ELSE IF Parsed(line) /\ j2.phase \in {"starting", "queued"}
                   THEN [j2 EXCEPT !.phase = "downloading"]
                   ELSE j2
        j4 == IF HasMergerTag(line)
              THEN [j3 EXCEPT !.phase = "merging", !.progress = 99, !.speed = "", !.eta = ""]
              ELSE j3
        j5 == IF HasExtractTag(line)
              THEN [j4 EXCEPT !.phase = "converting", !.progress = 99, !.speed = "", !.eta = ""]
              ELSE j4
    IN j5

StreamLine(js, id, line) ==
    [js EXCEPT ![JobIdx(js, id)] = ApplyLine(@, line)]

\* lines 224-226: the destination a line announces replaces output_file
CaptureDest(output_file, line, path) ==
    IF HasDest(line) THEN path ELSE output_file

\* lines 231-238: when no destination was captured or it is not on disk, the
\* first media file of the directory scan, if the scan finds one
ResolveOutput(output_file, exists, scan) ==
    IF output_file = NoFile \/ ~exists
    THEN (IF scan # <<>> THEN Head(scan) ELSE output_file)
    ELSE output_file

\* a success block that leaves the last progress line's speed and eta
SetDoneKeepsRate(js, id, output_file) ==
    [js EXCEPT ![JobIdx(js, id)] =
        [@ EXCEPT !.status = "done", !.progress = 100,
                  !.phase = "done", !.file = output_file, !.finished = TRUE]]

\* lines 239-243
SetDone(js, id, output_file) ==
    [js EXCEPT ![JobIdx(js, id)] =
        [@ EXCEPT !.status = "done", !.progress = 100, !.speed = "", !.eta = "",
                  !.phase = "done", !.file = output_file, !.finished = TRUE]]

\* the first non-blank line of the log instead of the last
RECURSIVE HintFirst(_)
HintFirst(log) ==
    IF log = <<>> THEN "yt-dlp error"
    ELSE IF Strip(Head(log)) # "blank" THEN Strip(Head(log))
         ELSE HintFirst(Tail(log))

\* line 259: next((l.strip() for l in reversed(log) if l.strip()), "yt-dlp error")
RECURSIVE Hint(_)
Hint(log) ==
    IF log = <<>> THEN "yt-dlp error"
    ELSE IF Strip(log[Len(log)]) # "blank" THEN Strip(log[Len(log)])
         ELSE Hint(SubSeq(log, 1, Len(log) - 1))

\* lines 257-261
SetExitError(js, id) ==
    SetError(js, id, Hint(GetJob(js, id).log))

\* a cleanup that keeps only the running jobs
ClearNotRunning(js) ==
    SelectSeq(js, LAMBDA j : j.status = "running")

\* /api/jobs/clear (lines 581-584)
ClearTerminal(js) ==
    SelectSeq(js, LAMBDA j : j.status \notin {"done", "error"})

\* /api/jobs/clear, the "cleared" of the response (lines 582, 585): len(done)
ClearCount(js) ==
    Len(SelectSeq(js, LAMBDA j : j.status \in {"done", "error"}))

\* ------------------------------------------------------------ catalog
\* a video as fetch_playlist_info builds it (lines 89-98); quality and
\* audio_only are keys a finished job adds and delete-file pops
NewVideo(vid) ==
    [id |-> vid, downloaded |-> FALSE, file_path |-> NoFile,
     quality |-> None, audio_only |-> None]

FetchedVideos(ids) == [i \in 1..Len(ids) |-> NewVideo(ids[i])]

VideoIdx(videos, vid) ==
    IF \E i \in 1..Len(videos) : videos[i].id = vid
    THEN CHOOSE i \in 1..Len(videos) :
            /\ videos[i].id = vid
            /\ \A k \in 1..(i - 1) : videos[k].id # vid
    ELSE 0

\* a loop without the test of the video id: the first video of the playlist
\* is taken for the job's video
VideoMatchesAny(v, j) == TRUE

\* line 249: the test of the loop over pl["videos"]
VideoMatches(v, j) == v.id = j.video_id

\* a reconciliation that marks the video downloaded and forgets the path
MarkDownloadedFlagOnly(v, output_file) ==
    [v EXCEPT !.downloaded = TRUE]

\* lines 250-251
MarkDownloaded(v, output_file) ==
    [v EXCEPT !.downloaded = TRUE, !.file_path = output_file]

\* line 252
MarkQuality(v, j) == [v EXCEPT !.quality = j.quality]

\* line 253
MarkAudioOnly(v, j) == [v EXCEPT !.audio_only = j.audio_only]

LastVideoIdx(videos, vid) ==
    IF \E i \in 1..Len(videos) : videos[i].id = vid
    THEN CHOOSE i \in 1..Len(videos) :
            /\ videos[i].id = vid
            /\ \A k \in (i + 1)..Len(videos) : videos[k].id # vid
    ELSE 0

\* lines 525-527 of /api/playlist/sync: remote order, existing entries kept
\* (the dict comprehension keeps the last entry of an id)
SyncVideos(old, ids) ==
    [i \in 1..Len(ids) |->
        IF LastVideoIdx(old, ids[i]) # 0
        THEN old[LastVideoIdx(old, ids[i])]
        ELSE NewVideo(ids[i])]

\* lines 548-550 of /api/video/add: the ids the playlist does not hold, appended
AddVideos(old, ids) ==
    old \o FetchedVideos(SelectSeq(ids, LAMBDA x : VideoIdx(old, x) = 0))

\* lines 600-612 of /api/video/delete-file
DeleteFiles(videos, ids) ==
    [i \in 1..Len(videos) |->
        IF videos[i].id \in Range(ids) /\ videos[i].file_path # NoFile
        THEN [videos[i] EXCEPT !.downloaded = FALSE, !.file_path = NoFile,
                               !.quality = None, !.audio_only = None]
        ELSE videos[i]]

\* line 643 of /api/video/remove
RemoveVideo(videos, vid) ==
    SelectSeq(videos, LAMBDA v : v.id # vid)

\* data["playlists"][pl_id] = pl (lines 510, 532, 553)
PutPlaylist(pls, pl_id, pl) ==
    [p \in (DOMAIN pls) \cup {pl_id} |-> IF p = pl_id THEN pl ELSE pls[p]]

\* del data["playlists"][pl_id] (line 629)
DelPlaylist(pls, pl_id) ==
    [p \in (DOMAIN pls) \ {pl_id} |-> pls[p]]

\* lines 173-174: data["playlists"].get(playlist_id) is None (a stored playlist
\* is a non-empty dict, so "not pl" is true only of None)
PlaylistMissing(pls, pl_id) == pl_id \notin DOMAIN pls

\* ------------------------------------------------------------- state
VARIABLES
    jobs,        \* the job table: records in dict (insertion) order
    job_queue,   \* the admission queue: job ids
    nextJob,     \* the next job id add_job issues (uuid4 modelled as a counter)
    playlists,   \* data.json "playlists": playlist id -> [videos]
    dataOk,      \* FALSE when data.json does not parse (json.load raises)
    nextPl,      \* the next playlist id /api/playlist/add issues
    wpc,         \* each worker's position in _worker/_run_job
    wjob,        \* each worker's job_id (0 when it holds none)
    wout,        \* each worker's output_file
    wlines,      \* lines each worker has read from its subprocess
    wexc,        \* each worker's exception on its way to an except clause (None if none)
    wdata,       \* each worker's locals inside the reconciliation block (lines 244-255)
    procs,       \* the live subprocesses, by the job that launched them
    hpc,         \* the request thread's position
    hpl,         \* request thread: pl_id of the request
    hcopy,       \* request thread: the videos of the playlist loaded in the first data_lock block
    hvids,       \* request thread: video_ids still to enqueue
    hjob,        \* request thread: job id between add_job's lock block and its put
    wasRunning,  \* history: ids of the jobs seen with status running
    dequeued,    \* history: job ids in the order job_queue.get() returned them
    saves,       \* history (StoreSpec): the bag of job ids whose reconciliation called save_data
    jobs_lock,   \* the thread inside a "with jobs_lock:" block, Unlocked if none
    data_lock    \* the thread inside a "with data_lock:" block, Unlocked if none

vars == <<jobs, job_queue, nextJob, playlists, dataOk, nextPl, wpc, wjob, wout,
          wlines, wexc, wdata, procs, hpc, hpl, hcopy, hvids, hjob, wasRunning,
          dequeued, saves, jobs_lock, data_lock>>

wvars == <<wpc, wjob, wout, wlines, wexc, wdata>>

hvars == <<hpc, hpl, hcopy, hvids, hjob>>

lockvars == <<jobs_lock, data_lock>>

\* the value of a lock no thread holds (threading.Lock(), lines 41 and 121)
Unlocked == -1

\* the one request thread of HTTPServer (line 701); the workers are numbered from 1
RequestThread == 0

\* A thread is inside save_data, between the open that truncates data.json
\* (line 50) and the end of json.dump (line 51).  Every call of save_data is made
\* inside a data_lock block, so the thread holds data_lock.
Saving == hpc = "save" \/ \E w \in DOMAIN wpc : wpc[w] = "save"

\* the locals of the reconciliation block outside the block: data is the
\* catalog load_data returned (line 245), pl the id of the job's playlist
\* (line 246) and k the place in pl["videos"] of the video the loop of line 248
\* is at
NoData == [data |-> <<>>, pl |-> 0, k |-> 0]

\* the id of the playlist in the data.json an earlier run left behind
EarlierPlaylist == 0

\* the catalog of that data.json: the playlist holds two videos, none downloaded
EarlierCatalog ==
    (EarlierPlaylist :> [videos |-> FetchedVideos(<<"v1", "v2">>)])

\* the state after import and start_thread_pool, on the data.json found
InitOn(W, catalog) ==
    /\ jobs = <<>>
    /\ job_queue = <<>>
    /\ nextJob = 1
    /\ playlists = catalog
    /\ dataOk = TRUE
    /\ nextPl = 1
    /\ wpc = [w \in W |-> "idle"]
    /\ wjob = [w \in W |-> 0]
    /\ wout = [w \in W |-> NoFile]
    /\ wlines = [w \in W |-> 0]
    /\ wexc = [w \in W |-> None]
    /\ wdata = [w \in W |-> NoData]
    /\ procs = {}
    /\ hpc = "idle"
    /\ hpl = 0
    /\ hcopy = <<>>
    /\ hvids = <<>>
    /\ hjob = 0
    /\ wasRunning = {}
    /\ dequeued = <<>>
    /\ saves = EmptyBag
    /\ jobs_lock = Unlocked
    /\ data_lock = Unlocked

\* a first run: no data.json yet, load_data returns the empty catalog (line 47)
InitFor(W) == InitOn(W, <<>>)

\* history kept with every change of the job table
SeenRunning(js) == {js[i].id : i \in {k \in 1..Len(js) : js[k].status = "running"}}


\* the file a job's subprocess writes
JobPath(j) == <<j.playlist_id, j.video_id>>

\* the worker is back at job_queue.get() (line 126)
WorkerIdle(w) ==
    /\ wpc' = [wpc EXCEPT ![w] = "idle"]
    /\ wjob' = [wjob EXCEPT ![w] = 0]
    /\ wout' = [wout EXCEPT ![w] = NoFile]
    /\ wlines' = [wlines EXCEPT ![w] = 0]
    /\ wexc' = [wexc EXCEPT ![w] = None]
    /\ wdata' = [wdata EXCEPT ![w] = NoData]

History ==
    wasRunning' = wasRunning \cup SeenRunning(jobs')

\* an exception leaves the code it was raised in for an except clause:
\* "run_except" is the clause of _run_job (line 263), "worker_except" the
\* clause of _worker (line 129)
Raise(w, clause, exc) ==
    /\ wpc' = [wpc EXCEPT ![w] = clause]
    /\ wexc' = [wexc EXCEPT ![w] = exc]
    /\ wdata' = [wdata EXCEPT ![w] = NoData]
    /\ UNCHANGED <<wjob, wout, wlines>>

\* ------------------------------------------------------------ workers
\* line 126: job_queue.get()
Dequeue(w) ==
    /\ wpc[w] = "idle"
    /\ job_queue # <<>>
    /\ wjob' = [wjob EXCEPT ![w] = QueueHead(job_queue)]
    /\ job_queue' = QueueRest(job_queue)
    /\ dequeued' = Append(dequeued, QueueHead(job_queue))
    /\ wpc' = [wpc EXCEPT ![w] = "start"]
    /\ UNCHANGED <<jobs, nextJob, playlists, dataOk, nextPl, wout, wlines, wexc,
                   wdata, procs, hvars, wasRunning>>
    /\ UNCHANGED <<saves, lockvars>>

\* lines 166-170 (a KeyError here leaves for _worker's except clause)
Start(w) ==
    /\ wpc[w] = "start"
    /\ IF HasJob(jobs, wjob[w])
       THEN /\ jobs' = RunJobStart(jobs, wjob[w])
            /\ wpc' = [wpc EXCEPT ![w] = "launch"]
            /\ UNCHANGED <<wjob, wout, wlines, wexc, wdata>>
       ELSE /\ Raise(w, "worker_except", "KeyError")
            /\ UNCHANGED jobs
    /\ History
    /\ UNCHANGED <<job_queue, nextJob, playlists, dataOk, nextPl, procs,
                   hvars, dequeued>>
    /\ UNCHANGED <<saves, lockvars>>

\* lines 172-174: load_data(), outside the try block and without data_lock,
\* and the test of the gate on what it returned; json.load raises on a file
\* that does not parse and on the file a thread inside save_data has truncated.
\* The worker then stands before the gate's lock block ("missing") or before
\* line 181 ("mkdir"), whatever happens to the catalog from then on.
Load(w) ==
    /\ wpc[w] = "launch"
    /\ IF ~dataOk \/ Saving
       THEN Raise(w, "worker_except", "JSONDecodeError")
       ELSE /\ wpc' = [wpc EXCEPT ![w] =
                        IF PlaylistMissing(playlists, GetJob(jobs, wjob[w]).playlist_id)
                        THEN "missing" ELSE "mkdir"]
            /\ UNCHANGED <<wjob, wout, wlines, wexc, wdata>>
    /\ UNCHANGED <<jobs, job_queue, nextJob, playlists, dataOk, nextPl, procs,
                   hvars, wasRunning, dequeued>>
    /\ UNCHANGED <<saves, lockvars>>

\* lines 175-179: the gate's lock block and the return
GateError(w) ==
    /\ wpc[w] = "missing"
    /\ jobs' = SetError(jobs, wjob[w], "Playlist not found")
    /\ WorkerIdle(w)
    /\ History
    /\ UNCHANGED <<job_queue, nextJob, playlists, dataOk, nextPl, procs,
                   hvars, dequeued>>
    /\ UNCHANGED <<saves, lockvars>>

\* lines 181-182, outside the try block: out_dir.mkdir(exist_ok=True) makes the
\* playlist's directory or raises OSError (the downloads directory is gone or
\* not writable, or a file has the directory's name), which leaves _run_job
\* for _worker's except clause
MakeDir(w) ==
    /\ wpc[w] = "mkdir"
    /\ \E made \in BOOLEAN :
        IF made
        THEN /\ wpc' = [wpc EXCEPT ![w] = "snapshot"]
             /\ UNCHANGED <<wjob, wout, wlines, wexc, wdata>>
        ELSE Raise(w, "worker_except", "OSError")
    /\ UNCHANGED <<jobs, job_queue, nextJob, playlists, dataOk, nextPl, procs,
                   hvars, wasRunning, dequeued>>
    /\ UNCHANGED <<saves, lockvars>>

\* lines 184-185: the copy of the job's record, of which the fields read later
\* (video_id, quality, audio_only) are never written after add_job
Snapshot(w) ==
    /\ wpc[w] = "snapshot"
    /\ IF HasJob(jobs, wjob[w])
       THEN /\ wpc' = [wpc EXCEPT ![w] = "args"]
            /\ UNCHANGED <<wjob, wout, wlines, wexc, wdata>>
       ELSE Raise(w, "worker_except", "KeyError")
    /\ UNCHANGED <<jobs, job_queue, nextJob, playlists, dataOk, nextPl, procs,
                   hvars, wasRunning, dequeued>>
    /\ UNCHANGED <<saves, lockvars>>

\* lines 187-192, outside the try block: the command line and the print of it.
\* build_ydl_args returns for every quality of Qualities (a string: line 67
\* looks it up in a dict); print raises OSError when the standard output of the
\* server is closed, which leaves _run_job for _worker's except clause
BuildArgs(w) ==
    /\ wpc[w] = "args"
    /\ \E printed \in BOOLEAN :
        IF printed
        THEN /\ wpc' = [wpc EXCEPT ![w] = "popen"]
             /\ UNCHANGED <<wjob, wout, wlines, wexc, wdata>>
        ELSE Raise(w, "worker_except", "OSError")
    /\ UNCHANGED <<jobs, job_queue, nextJob, playlists, dataOk, nextPl, procs,
                   hvars, wasRunning, dequeued>>
    /\ UNCHANGED <<saves, lockvars>>

\* lines 194-198, inside the try block: subprocess.Popen starts the tool or
\* raises (tool not installed), on the way to _run_job's except clause
Launch(w) ==
    /\ wpc[w] = "popen"
    /\ \E started \in BOOLEAN :
        IF started
        THEN /\ procs' = procs \cup {wjob[w]}
             /\ wpc' = [wpc EXCEPT ![w] = "stream"]
             /\ UNCHANGED <<wjob, wout, wlines, wexc, wdata>>
        ELSE /\ Raise(w, "run_except", "FileNotFoundError")
             /\ UNCHANGED procs
    /\ UNCHANGED <<jobs, job_queue, nextJob, playlists, dataOk, nextPl,
                   hvars, wasRunning, dequeued>>
    /\ UNCHANGED <<saves, lockvars>>

\* lines 199-226: one output line. When parse_line raises, _run_job leaves the
\* loop for its except clause without waiting for the subprocess, which goes on
\* running
ReadLine(w) ==
    /\ wpc[w] = "stream"
    /\ \E n \in LineCounts : wlines[w] < n
    /\ \E line \in StreamLines :
        IF ParseRaises(line)
        THEN /\ Raise(w, "run_except", "ValueError")
             /\ UNCHANGED jobs
        ELSE /\ jobs' = StreamLine(jobs, wjob[w], line)
             /\ wout' = [wout EXCEPT ![w] =
                           CaptureDest(@, line, JobPath(GetJob(jobs, wjob[w])))]
             /\ wlines' = [wlines EXCEPT ![w] = @ + 1]
             /\ UNCHANGED <<wpc, wjob, wexc, wdata>>
    /\ History
    /\ UNCHANGED <<job_queue, nextJob, playlists, dataOk, nextPl, procs,
                   hvars, dequeued>>
    /\ UNCHANGED <<saves, lockvars>>

\* line 233: the media files out_dir.glob("*<video_id>*") can list, newest
\* first: none, or a file of the job's directory whose name holds the job's
\* video id, which the file of another video can do through its title
ScanResults(j) == {<<>>} \cup {<<<<j.playlist_id, v>>>> : v \in VideoIds}

\* lines 228-243: the subprocess exits with code 0.  The scan of lines 232-238
\* runs when no destination was captured or it is not on disk, and p.stat()
\* (line 234) raises FileNotFoundError when a file the glob listed is removed
\* before the sort reads it: the job is then not set to done
ExitOk(w) ==
    /\ wpc[w] = "stream"
    /\ \E exists \in BOOLEAN, raised \in BOOLEAN, scan \in ScanResults(GetJob(jobs, wjob[w])) :
        IF (wout[w] = NoFile \/ ~exists) /\ raised
        THEN /\ Raise(w, "run_except", "FileNotFoundError")
             /\ UNCHANGED jobs
        ELSE LET output_file == ResolveOutput(wout[w], exists, scan)
             IN /\ jobs' = SetDone(jobs, wjob[w], output_file)
                /\ wout' = [wout EXCEPT ![w] = output_file]
                /\ wpc' = [wpc EXCEPT ![w] = "reconcile"]
                /\ UNCHANGED <<wjob, wlines, wexc, wdata>>
    /\ procs' = procs \ {wjob[w]}
    /\ History
    /\ UNCHANGED <<job_queue, nextJob, playlists, dataOk, nextPl, hvars, dequeued>>
    /\ UNCHANGED <<saves, lockvars>>

\* lines 228, 256-261: the subprocess exits with another code
ExitFail(w) ==
    /\ wpc[w] = "stream"
    /\ jobs' = SetExitError(jobs, wjob[w])
    /\ procs' = procs \ {wjob[w]}
    /\ WorkerIdle(w)
    /\ History
    /\ UNCHANGED <<job_queue, nextJob, playlists, dataOk, nextPl,
                   hvars, dequeued>>
    /\ UNCHANGED <<saves, lockvars>>

\* an exception inside the reconciliation block: the "with" statement releases
\* data_lock on the way to _run_job's except clause, and nothing is saved
ReconcileRaise(w, exc) ==
    /\ Raise(w, "run_except", exc)
    /\ data_lock' = Unlocked
    /\ UNCHANGED <<playlists, dataOk>>

\* line 255, save_data(data) called: open(..., "w") truncates data.json (line
\* 50) and json.dump is about to write the catalog the block has built, under
\* which the file parses again
ReconcileSave(w, data) ==
    /\ playlists' = data
    /\ dataOk' = TRUE
    /\ data_lock' = w
    /\ wpc' = [wpc EXCEPT ![w] = "save"]
    /\ wdata' = [wdata EXCEPT ![w] = NoData]
    /\ UNCHANGED <<wjob, wout, wlines, wexc>>

\* lines 244-247, the data_lock block entered when no thread holds data_lock:
\* load_data() raises when data.json does not parse and jobs[job_id] (line 246)
\* raises KeyError when /api/jobs/clear has removed the job, both on the way to
\* _run_job's except clause; a playlist that is gone ends the block with
\* nothing saved; otherwise the worker stands at the loop of line 248, holding
\* data_lock (at save_data when the playlist has no video)
ReconcileLoad(w) ==
    /\ wpc[w] = "reconcile"
    /\ data_lock = Unlocked
    /\ IF ~dataOk
       THEN ReconcileRaise(w, "JSONDecodeError")
       ELSE IF ~HasJob(jobs, wjob[w])
       THEN ReconcileRaise(w, "KeyError")
       ELSE LET pl == GetJob(jobs, wjob[w]).playlist_id
            IN IF PlaylistMissing(playlists, pl)
               THEN /\ WorkerIdle(w)
                    /\ UNCHANGED <<playlists, dataOk, data_lock>>
               ELSE IF playlists[pl].videos = <<>>
               THEN ReconcileSave(w, playlists)
               ELSE /\ wdata' = [wdata EXCEPT ![w] =
                                    [data |-> playlists, pl |-> pl, k |-> 1]]
                    /\ wpc' = [wpc EXCEPT ![w] = "match"]
                    /\ data_lock' = w
                    /\ UNCHANGED <<wjob, wout, wlines, wexc, playlists, dataOk>>
    /\ UNCHANGED <<jobs, job_queue, nextJob, nextPl, procs,
                   hvars, wasRunning, dequeued, jobs_lock>>

\* lines 248-251, one turn of the loop: jobs[job_id] (line 249), read without
\* jobs_lock, raises KeyError when /api/jobs/clear has removed the job since
\* the block was entered; the video that matches is marked in the loaded
\* catalog; after the last video without a match save_data is called
ReconcileMatch(w) ==
    /\ wpc[w] = "match"
    /\ data_lock = w
    /\ LET d == wdata[w]
           vs == d.data[d.pl].videos
       IN IF ~HasJob(jobs, wjob[w])
          THEN ReconcileRaise(w, "KeyError")
          ELSE IF VideoMatches(vs[d.k], GetJob(jobs, wjob[w]))
          THEN /\ wdata' = [wdata EXCEPT ![w].data[d.pl].videos[d.k] =
                                MarkDownloaded(@, wout[w])]
               /\ wpc' = [wpc EXCEPT ![w] = "quality"]
               /\ UNCHANGED <<wjob, wout, wlines, wexc, playlists, dataOk, data_lock>>
          ELSE IF d.k < Len(vs)
          THEN /\ wdata' = [wdata EXCEPT ![w].k = d.k + 1]
               /\ UNCHANGED <<wpc, wjob, wout, wlines, wexc, playlists, dataOk,
                              data_lock>>
          ELSE ReconcileSave(w, d.data)
    /\ UNCHANGED <<jobs, job_queue, nextJob, nextPl, procs,
                   hvars, wasRunning, dequeued, jobs_lock>>

\* line 252: jobs[job_id]["quality"], read without jobs_lock
ReconcileQuality(w) ==
    /\ wpc[w] = "quality"
    /\ data_lock = w
    /\ LET d == wdata[w]
       IN IF ~HasJob(jobs, wjob[w])
          THEN ReconcileRaise(w, "KeyError")
          ELSE /\ wdata' = [wdata EXCEPT ![w].data[d.pl].videos[d.k] =
                                MarkQuality(@, GetJob(jobs, wjob[w]))]
               /\ wpc' = [wpc EXCEPT ![w] = "audio"]
               /\ UNCHANGED <<wjob, wout, wlines, wexc, playlists, dataOk, data_lock>>
    /\ UNCHANGED <<jobs, job_queue, nextJob, nextPl, procs,
                   hvars, wasRunning, dequeued, jobs_lock>>

\* lines 253-255: jobs[job_id]["audio_only"], read without jobs_lock, the
\* break and the call of save_data
ReconcileAudio(w) ==
    /\ wpc[w] = "audio"
    /\ data_lock = w
    /\ LET d == wdata[w]
       IN IF ~HasJob(jobs, wjob[w])
          THEN ReconcileRaise(w, "KeyError")
          ELSE ReconcileSave(w, [d.data EXCEPT ![d.pl].videos[d.k] =
                                    MarkAudioOnly(@, GetJob(jobs, wjob[w]))])
    /\ UNCHANGED <<jobs, job_queue, nextJob, nextPl, procs,
                   hvars, wasRunning, dequeued, jobs_lock>>

\* line 255, the end of save_data: data.json is whole again, the block is left
\* and the worker is back at the queue
ReconcileEnd(w) ==
    /\ wpc[w] = "save"
    /\ data_lock = w
    /\ data_lock' = Unlocked
    /\ WorkerIdle(w)
    /\ UNCHANGED <<jobs, job_queue, nextJob, playlists, dataOk, nextPl, procs,
                   hvars, wasRunning, dequeued, saves, jobs_lock>>

\* lines 263-267, _run_job's except clause: jobs[job_id] raises KeyError when
\* the job is gone, on the way to _worker's except clause
RunJobExcept(w) ==
    /\ wpc[w] = "run_except"
    /\ IF HasJob(jobs, wjob[w])
       THEN /\ jobs' = SetError(jobs, wjob[w], wexc[w])
            /\ WorkerIdle(w)
       ELSE /\ Raise(w, "worker_except", "KeyError")
            /\ UNCHANGED jobs
    /\ History
    /\ UNCHANGED <<job_queue, nextJob, playlists, dataOk, nextPl, procs,
                   hvars, dequeued>>
    /\ UNCHANGED <<saves, lockvars>>

\* lines 129-135, _worker's except clause
WorkerExceptBlock(w) ==
    /\ wpc[w] = "worker_except"
    /\ jobs' = WorkerExcept(jobs, wjob[w], wexc[w])
    /\ WorkerIdle(w)
    /\ History
    /\ UNCHANGED <<job_queue, nextJob, playlists, dataOk, nextPl, procs,
                   hvars, dequeued>>
    /\ UNCHANGED <<saves, lockvars>>

\* a subprocess whose worker has left it (ReadLine's exception) ends by itself
OrphanExit(id) ==
    /\ id \in procs
    /\ \A w \in DOMAIN wjob : wjob[w] # id
    /\ procs' = procs \ {id}
    /\ UNCHANGED <<jobs, job_queue, nextJob, playlists, dataOk, nextPl, wvars,
                   hvars, wasRunning, dequeued>>
    /\ UNCHANGED <<saves, lockvars>>

\* lines 244-255 up to the call of save_data
ReconcileBlock(w) ==
    \/ ReconcileLoad(w)
    \/ ReconcileMatch(w)
    \/ ReconcileQuality(w)
    \/ ReconcileAudio(w)

\* the reconciliation where the save_data calls are not counted
ReconcileQuiet(w) == ReconcileBlock(w) /\ UNCHANGED saves

\* the reconciliation with its save_data call counted
ReconcileCounted(w) ==
    /\ ReconcileBlock(w)
    /\ saves' = IF wpc'[w] = "save" THEN saves (+) SetToBag({wjob[w]}) ELSE saves

\* the steps of a worker whatever its subprocess prints
WorkerCommon(w) ==
    \/ Dequeue(w)
    \/ Start(w)
    \/ Load(w)
    \/ GateError(w)
    \/ MakeDir(w)
    \/ Snapshot(w)
    \/ BuildArgs(w)
    \/ Launch(w)
    \/ ExitOk(w)
    \/ ExitFail(w)
    \/ ReconcileEnd(w)
    \/ RunJobExcept(w)
    \/ WorkerExceptBlock(w)

WorkerNext(w) ==
    \/ WorkerCommon(w)
    \/ ReadLine(w)
    \/ ReconcileQuiet(w)

\* ----------------------------------------------------- request thread
HandlerIdle ==
    /\ hpc' = "idle"
    /\ hpl' = 0
    /\ hcopy' = <<>>
    /\ hvids' = <<>>
    /\ hjob' = 0

\* the request thread has called save_data inside a data_lock block: the file
\* is truncated (line 50) and the write (line 51) is still to be done
SaveData ==
    /\ hpc' = "save"
    /\ hpl' = 0
    /\ hcopy' = <<>>
    /\ hvids' = <<>>
    /\ hjob' = 0
    /\ data_lock' = RequestThread
    /\ UNCHANGED jobs_lock

\* the end of that save_data: data.json is whole again, the block is left and
\* the response is sent
SaveDataEnd ==
    /\ hpc = "save"
    /\ data_lock = RequestThread
    /\ data_lock' = Unlocked
    /\ HandlerIdle
    /\ UNCHANGED <<jobs, job_queue, nextJob, playlists, dataOk, nextPl, wvars, procs,
                   wasRunning, dequeued, saves, jobs_lock>>

\* POST /api/playlist/add (lines 499-514)
PlaylistAdd ==
    /\ hpc = "idle"
    /\ dataOk
    /\ data_lock = Unlocked
    /\ nextPl \in PlaylistIds
    /\ \E ids \in RemoteLists :
        playlists' = PutPlaylist(playlists, nextPl, [videos |-> FetchedVideos(ids)])
    /\ nextPl' = nextPl + 1
    /\ SaveData
    /\ UNCHANGED <<jobs, job_queue, nextJob, dataOk, wvars, procs,
                   wasRunning, dequeued, saves>>

\* POST /api/playlist/sync, the first data_lock block (lines 517-522)
SyncBegin ==
    /\ hpc = "idle"
    /\ dataOk
    /\ data_lock = Unlocked
    /\ \E p \in DOMAIN playlists :
        /\ hpl' = p
        /\ hcopy' = playlists[p].videos
    /\ hpc' = "sync"
    /\ UNCHANGED <<jobs, job_queue, nextJob, playlists, dataOk, nextPl, wvars, procs,
                   hvids, hjob, wasRunning, dequeued>>
    /\ UNCHANGED <<saves, lockvars>>

\* POST /api/playlist/sync, the fetch and the second data_lock block (lines 524-534)
SyncEnd ==
    /\ hpc = "sync"
    /\ data_lock = Unlocked
    /\ \E ids \in RemoteLists :
        IF dataOk
        THEN /\ playlists' = PutPlaylist(playlists, hpl, [videos |-> SyncVideos(hcopy, ids)])
             /\ SaveData
        ELSE /\ HandlerIdle
             /\ UNCHANGED <<playlists, lockvars>>
    /\ UNCHANGED <<jobs, job_queue, nextJob, dataOk, nextPl, wvars, procs,
                   wasRunning, dequeued, saves>>

\* POST /api/video/add, the first data_lock block (lines 539-545)
VideoAddBegin ==
    /\ hpc = "idle"
    /\ dataOk
    /\ data_lock = Unlocked
    /\ \E p \in DOMAIN playlists :
        /\ hpl' = p
        /\ hcopy' = playlists[p].videos
    /\ hpc' = "video_add"
    /\ UNCHANGED <<jobs, job_queue, nextJob, playlists, dataOk, nextPl, wvars, procs,
                   hvids, hjob, wasRunning, dequeued>>
    /\ UNCHANGED <<saves, lockvars>>

\* POST /api/video/add, the fetch and the second data_lock block (lines 547-555)
VideoAddEnd ==
    /\ hpc = "video_add"
    /\ data_lock = Unlocked
    /\ \E ids \in RemoteLists :
        IF dataOk
        THEN /\ playlists' = PutPlaylist(playlists, hpl, [videos |-> AddVideos(hcopy, ids)])
             /\ SaveData
        ELSE /\ HandlerIdle
             /\ UNCHANGED <<playlists, lockvars>>
    /\ UNCHANGED <<jobs, job_queue, nextJob, dataOk, nextPl, wvars, procs,
                   wasRunning, dequeued, saves>>

\* fetch_playlist_info raises (lines 82-83): the request ends with a 500
FetchFails ==
    /\ hpc \in {"sync", "video_add"}
    /\ HandlerIdle
    /\ UNCHANGED <<jobs, job_queue, nextJob, playlists, dataOk, nextPl, wvars, procs,
                   wasRunning, dequeued>>
    /\ UNCHANGED <<saves, lockvars>>

\* POST /api/download up to the first add_job (lines 559-569) for a request
\* that names one of the playlist ids of named: the playlist is looked up with
\* .get(pl_id, {}), so a job is enqueued for every video id of the request
\* whether or not the catalog has the playlist.  When load_data (line 566),
\* which takes no data_lock, raises (data.json does not parse, or a worker is
\* inside save_data), the request ends with nothing done.
DownloadBegin(cap, named) ==
    /\ hpc = "idle"
    /\ dataOk
    /\ ~Saving
    /\ \E p \in named, vids \in RequestLists :
        /\ nextJob + Len(vids) - 1 <= cap
        /\ hpl' = p
        /\ hvids' = vids
    /\ hpc' = "add_job"
    /\ UNCHANGED <<jobs, job_queue, nextJob, playlists, dataOk, nextPl, wvars, procs,
                   hcopy, hjob, wasRunning, dequeued>>
    /\ UNCHANGED <<saves, lockvars>>

\* add_job, lines 150-161
AddJobLock ==
    /\ hpc = "add_job"
    /\ \E quality \in Qualities, audio_only \in AudioFlags :
        jobs' = AddJobInsert(jobs, nextJob, hpl, Head(hvids), quality, audio_only)
    /\ hjob' = nextJob
    /\ nextJob' = nextJob + 1
    /\ hpc' = "put"
    /\ History
    /\ UNCHANGED <<job_queue, playlists, dataOk, nextPl, wvars, procs,
                   hpl, hcopy, hvids, dequeued>>
    /\ UNCHANGED <<saves, lockvars>>

\* add_job, line 162, and the next turn of line 569's loop
AddJobPut ==
    /\ hpc = "put"
    /\ job_queue' = QueuePut(job_queue, hjob)
    /\ IF Tail(hvids) = <<>>
       THEN HandlerIdle
       ELSE /\ hpc' = "add_job"
            /\ hvids' = Tail(hvids)
            /\ hjob' = 0
            /\ UNCHANGED <<hpl, hcopy>>
    /\ UNCHANGED <<jobs, nextJob, playlists, dataOk, nextPl, wvars, procs,
                   wasRunning, dequeued>>
    /\ UNCHANGED <<saves, lockvars>>

\* POST /api/settings/update (lines 572-577): data.json is rewritten with the
\* same playlists
SettingsUpdate ==
    /\ hpc = "idle"
    /\ dataOk
    /\ data_lock = Unlocked
    /\ SaveData
    /\ UNCHANGED <<jobs, job_queue, nextJob, playlists, dataOk, nextPl, wvars, procs,
                   wasRunning, dequeued, saves>>

\* POST /api/jobs/clear (lines 580-585)
JobsClear ==
    /\ hpc = "idle"
    /\ jobs' = ClearTerminal(jobs)
    /\ jobs' # jobs
    /\ History
    /\ UNCHANGED <<job_queue, nextJob, playlists, dataOk, nextPl, wvars, procs,
                   hvars, dequeued>>
    /\ UNCHANGED <<saves, lockvars>>

\* POST /api/video/delete-file (lines 587-614)
DeleteFile ==
    /\ hpc = "idle"
    /\ dataOk
    /\ data_lock = Unlocked
    /\ \E p \in DOMAIN playlists, vids \in RequestLists :
        playlists' = [playlists EXCEPT ![p].videos = DeleteFiles(@, vids)]
    /\ SaveData
    /\ UNCHANGED <<jobs, job_queue, nextJob, dataOk, nextPl, wvars, procs,
                   wasRunning, dequeued, saves>>

\* DELETE /api/playlist/<id> (lines 624-632)
DeletePlaylist ==
    /\ hpc = "idle"
    /\ dataOk
    /\ data_lock = Unlocked
    /\ \E p \in DOMAIN playlists : playlists' = DelPlaylist(playlists, p)
    /\ SaveData
    /\ UNCHANGED <<jobs, job_queue, nextJob, dataOk, nextPl, wvars, procs,
                   wasRunning, dequeued, saves>>

\* DELETE /api/video/remove (lines 634-645)
VideoRemove ==
    /\ hpc = "idle"
    /\ dataOk
    /\ data_lock = Unlocked
    /\ \E p \in DOMAIN playlists, vid \in VideoIds :
        playlists' = [playlists EXCEPT ![p].videos = RemoveVideo(@, vid)]
    /\ SaveData
    /\ UNCHANGED <<jobs, job_queue, nextJob, dataOk, nextPl, wvars, procs,
                   wasRunning, dequeued, saves>>

\* data.json stops parsing (written from outside, or a save_data cut short);
\* load_data then raises until the file is written again, which only a
\* save_data whose load_data came before does (a reconciliation block that was
\* past line 245).  The unreadable content is kept as the empty mapping.
CorruptDataFile ==
    /\ dataOk
    /\ ~Saving
    /\ dataOk' = FALSE
    /\ playlists' = <<>>
    /\ UNCHANGED <<jobs, job_queue, nextJob, nextPl, wvars, procs,
                   hvars, wasRunning, dequeued>>
    /\ UNCHANGED <<saves, lockvars>>

Init == InitFor(Workers)

Next ==
    \/ \E w \in Workers : WorkerNext(w)
    \/ \E id \in 1..MaxJobs : OrphanExit(id)
    \/ SaveDataEnd
    \/ PlaylistAdd
    \/ SyncBegin
    \/ SyncEnd
    \/ VideoAddBegin
    \/ VideoAddEnd
    \/ FetchFails
    \/ DownloadBegin(MaxJobs, {EarlierPlaylist} \cup PlaylistIds)
    \/ AddJobLock
    \/ AddJobPut
    \/ SettingsUpdate
    \/ JobsClear
    \/ DeleteFile
    \/ DeletePlaylist
    \/ VideoRemove
    \/ CorruptDataFile

Spec == Init /\ [][Next]_vars

\* The pool and its queue: two workers on the catalog of an earlier run, the
\* downloads (for the playlist of that catalog and for an id the catalog does
\* not hold) and /api/jobs/clear.  data.json is written by the reconciliations
\* only.
PoolInit == InitOn(PoolWorkers, EarlierCatalog)

PoolNext ==
    \/ \E w \in PoolWorkers : WorkerNext(w)
    \/ \E id \in 1..PoolJobs : OrphanExit(id)
    \/ DownloadBegin(PoolJobs, {EarlierPlaylist} \cup PlaylistIds)
    \/ AddJobLock
    \/ AddJobPut
    \/ JobsClear

PoolSpec == PoolInit /\ [][PoolNext]_vars

\* The same requests with more jobs than workers.
SoloInit == InitFor(SoloWorkers)

SoloNext ==
    \/ \E w \in SoloWorkers : WorkerNext(w)
    \/ \E id \in 1..SoloJobs : OrphanExit(id)
    \/ SaveDataEnd
    \/ PlaylistAdd
    \/ DownloadBegin(SoloJobs, {EarlierPlaylist} \cup PlaylistIds)
    \/ AddJobLock
    \/ AddJobPut
    \/ SettingsUpdate
    \/ JobsClear
    \/ DeletePlaylist
    \/ CorruptDataFile

SoloSpec == SoloInit /\ [][SoloNext]_vars

\* The pool started on a data.json an earlier run left behind: the catalog is
\* durable, so the process can start with playlists in it.  This one holds two
\* videos, none downloaded; the jobs of the run are for that playlist and for
\* the playlists the run adds.  StoreSpec counts the save_data calls of the
\* reconciliations in saves.
StoreInit == InitOn(SoloWorkers, EarlierCatalog)

StoreNext ==
    \/ \E w \in SoloWorkers :
        \/ WorkerCommon(w)
        \/ ReadLine(w)
        \/ ReconcileCounted(w)
    \/ \E id \in 1..SoloJobs : OrphanExit(id)
    \/ SaveDataEnd
    \/ PlaylistAdd
    \/ DownloadBegin(SoloJobs, {EarlierPlaylist} \cup PlaylistIds)
    \/ AddJobLock
    \/ AddJobPut
    \/ SettingsUpdate
    \/ JobsClear
    \/ DeletePlaylist
    \/ CorruptDataFile

StoreSpec == StoreInit /\ [][StoreNext]_vars

\* Scheduling: every worker thread that can take a step eventually takes one (the
\* OS schedules each thread; a launched subprocess eventually closes its output
\* and exits), and so does the request thread while it is inside save_data,
\* holding data_lock.  threading.Lock hands a released lock to any thread that
\* asks for it, so nothing is assumed of a thread that waits for a lock other
\* threads keep taking, and nothing is assumed of the requests.
FairSoloSpec ==
    /\ SoloSpec
    /\ \A w \in SoloWorkers : WF_vars(WorkerNext(w))
    /\ WF_vars(SaveDataEnd)

\* One job at a time with a long output, for a video of the earlier catalog:
\* the rolling log and the error message of a failed download.  With no
\* request that deletes the playlist, the gate's error block is never entered.
LogWorkers == {1}

\* lines 199-226 for the outputs of OutputLines (none of which parse_line
\* rejects with an exception)
ReadLog(w) ==
    /\ wpc[w] = "stream"
    /\ wlines[w] < MaxLines
    /\ \E line \in OutputLines(wlines[w] + 1) :
        /\ jobs' = StreamLine(jobs, wjob[w], line)
        /\ wout' = [wout EXCEPT ![w] =
                      CaptureDest(@, line, JobPath(GetJob(jobs, wjob[w])))]
    /\ wlines' = [wlines EXCEPT ![w] = @ + 1]
    /\ History
    /\ UNCHANGED <<job_queue, nextJob, playlists, dataOk, nextPl, wpc, wjob, wexc,
                   wdata, procs, hvars, dequeued, saves, lockvars>>

LogInit == InitOn(LogWorkers, EarlierCatalog)

LogNext ==
    \/ \E w \in LogWorkers :
        \/ Dequeue(w)
        \/ Start(w)
        \/ Load(w)
        \/ MakeDir(w)
        \/ Snapshot(w)
        \/ BuildArgs(w)
        \/ Launch(w)
        \/ ReadLog(w)
        \/ ExitOk(w)
        \/ ExitFail(w)
        \/ ReconcileQuiet(w)
        \/ ReconcileEnd(w)
        \/ RunJobExcept(w)
        \/ WorkerExceptBlock(w)
    \/ DownloadBegin(LogJobs, {EarlierPlaylist})
    \/ AddJobLock
    \/ AddJobPut

LogSpec == LogInit /\ [][LogNext]_vars

\* One worker and the output of a download with its progress, phase and
\* destination lines, on the catalog of an earlier run: downloads for its
\* playlist and for an id the catalog does not hold, /api/jobs/clear and a
\* data.json that stops parsing.
ReadTool(w) ==
    /\ wpc[w] = "stream"
    /\ wlines[w] < PhaseLen
    /\ \E line \in ToolLines(wlines[w] + 1) :
        IF ParseRaises(line)
        THEN /\ Raise(w, "run_except", "ValueError")
             /\ UNCHANGED jobs
        ELSE /\ jobs' = StreamLine(jobs, wjob[w], line)
             /\ wout' = [wout EXCEPT ![w] =
                           CaptureDest(@, line, JobPath(GetJob(jobs, wjob[w])))]
             /\ wlines' = [wlines EXCEPT ![w] = @ + 1]
             /\ UNCHANGED <<wpc, wjob, wexc, wdata>>
    /\ History
    /\ UNCHANGED <<job_queue, nextJob, playlists, dataOk, nextPl, procs,
                   hvars, dequeued, saves, lockvars>>

PhaseInit == InitOn(LogWorkers, EarlierCatalog)

PhaseNext ==
    \/ \E w \in LogWorkers :
        \/ WorkerCommon(w)
        \/ ReadTool(w)
        \/ ReconcileQuiet(w)
    \/ \E id \in 1..PhaseJobs : OrphanExit(id)
    \/ DownloadBegin(PhaseJobs, {EarlierPlaylist} \cup PlaylistIds)
    \/ AddJobLock
    \/ AddJobPut
    \/ JobsClear
    \/ CorruptDataFile

PhaseSpec == PhaseInit /\ [][PhaseNext]_vars

\* ---------------------------------------------------------------- locks
\* LockSpec follows the same threads through their "with" blocks only: a
\* position is a block (named by the line of its "with") or the code between two
\* blocks, a thread at a block waits for the block's lock or is inside the
\* block, and every branch of the code, an exception inside a block included,
\* may be taken.  The data the blocks read and write stay as they are.

Threads == Workers \cup {RequestThread}

\* the lock a "with" statement takes, by the line of the statement
BlockLock(b) ==
    CASE b \in {"w130", "w166", "w175", "w184", "w202", "w239", "w257", "w264",
                "h151", "h461", "h484", "h581"} -> "jobs_lock"
      [] b \in {"w244", "h508", "h518", "h530", "h541", "h551", "h574", "h595",
                "h626", "h638"} -> "data_lock"
      [] OTHER -> "none"

\* the "with" statements on the two locks, named by thread and line
Blocks ==
    {"w130", "w166", "w175", "w184", "w202", "w239", "w244", "w257", "w264",
     "h151", "h461", "h484", "h508", "h518", "h530", "h541", "h551", "h574",
     "h581", "h595", "h626", "h638"}

\* a source in which the reconciliation is written inside the done block: the
\* "with data_lock:" of line 244 one level deeper, so that the block of line 239
\* runs to line 255
BlockSpanDoneEncloses(b) ==
    CASE b = "w130" -> <<130, 134>>
      [] b = "w166" -> <<166, 170>>
      [] b = "w175" -> <<175, 178>>
      [] b = "w184" -> <<184, 185>>
      [] b = "w202" -> <<202, 226>>
      [] b = "w239" -> <<239, 255>>
      [] b = "w244" -> <<244, 255>>
      [] b = "w257" -> <<257, 261>>
      [] b = "w264" -> <<264, 267>>
      [] b = "h151" -> <<151, 161>>
      [] b = "h461" -> <<461, 463>>
      [] b = "h484" -> <<484, 485>>
      [] b = "h508" -> <<508, 511>>
      [] b = "h518" -> <<518, 520>>
      [] b = "h530" -> <<530, 533>>
      [] b = "h541" -> <<541, 543>>
      [] b = "h551" -> <<551, 554>>
      [] b = "h574" -> <<574, 577>>
      [] b = "h581" -> <<581, 584>>
      [] b = "h595" -> <<595, 613>>
      [] b = "h626" -> <<626, 631>>
      [] b = "h638" -> <<638, 644>>

\* the lines of each "with" block: the line of the statement and the last
\* line of its indented body
BlockSpan(b) ==
    CASE b = "w130" -> <<130, 134>>
      [] b = "w166" -> <<166, 170>>
      [] b = "w175" -> <<175, 178>>
      [] b = "w184" -> <<184, 185>>
      [] b = "w202" -> <<202, 226>>
      [] b = "w239" -> <<239, 243>>
      [] b = "w244" -> <<244, 255>>
      [] b = "w257" -> <<257, 261>>
      [] b = "w264" -> <<264, 267>>
      [] b = "h151" -> <<151, 161>>
      [] b = "h461" -> <<461, 463>>
      [] b = "h484" -> <<484, 485>>
      [] b = "h508" -> <<508, 511>>
      [] b = "h518" -> <<518, 520>>
      [] b = "h530" -> <<530, 533>>
      [] b = "h541" -> <<541, 543>>
      [] b = "h551" -> <<551, 554>>
      [] b = "h574" -> <<574, 577>>
      [] b = "h581" -> <<581, 584>>
      [] b = "h595" -> <<595, 613>>
      [] b = "h626" -> <<626, 631>>
      [] b = "h638" -> <<638, 644>>

\* the functions of the file that are called inside a "with" block or hold one
Functions ==
    {"load_data", "save_data", "_update_queue_positions", "add_job", "_run_job",
     "send_json"}

\* the lines of each function, from its "def" to the last line of its body
FuncSpan(f) ==
    CASE f = "load_data" -> <<43, 47>>
      [] f = "save_data" -> <<49, 51>>
      [] f = "_update_queue_positions" -> <<142, 147>>
      [] f = "add_job" -> <<149, 163>>
      [] f = "_run_job" -> <<165, 267>>
      [] f = "send_json" -> <<281, 288>>

\* the calls of these functions made inside a "with" block, and the calls of
\* the functions that hold a "with" block (add_job, _run_job), by line
CallSites ==
    {<<128, "_run_job">>, <<161, "_update_queue_positions">>,
     <<170, "_update_queue_positions">>, <<245, "load_data">>,
     <<255, "save_data">>, <<485, "send_json">>, <<509, "load_data">>,
     <<511, "save_data">>, <<519, "load_data">>, <<531, "load_data">>,
     <<533, "save_data">>, <<542, "load_data">>, <<552, "load_data">>,
     <<554, "save_data">>, <<569, "add_job">>, <<575, "load_data">>,
     <<577, "save_data">>, <<596, "load_data">>, <<599, "send_json">>,
     <<613, "save_data">>, <<627, "load_data">>, <<630, "save_data">>,
     <<631, "send_json">>, <<639, "load_data">>, <<642, "send_json">>,
     <<644, "save_data">>}

\* the locks the code of lines lo..hi takes: by a "with" statement on one of
\* these lines, or inside a function called from one of them (calls followed
\* depth levels down)
RECURSIVE LocksTaken(_, _, _)
LocksTaken(lo, hi, depth) ==
    {BlockLock(b) : b \in {x \in Blocks : lo <= BlockSpan(x)[1] /\ BlockSpan(x)[1] <= hi}}
        \cup
    (IF depth = 0 THEN {}
     ELSE UNION {LocksTaken(FuncSpan(c[2])[1], FuncSpan(c[2])[2], depth - 1) :
                    c \in {x \in CallSites : lo <= x[1] /\ x[1] <= hi}})

\* the locks taken inside a block while its own lock is held: by the lines of
\* its body, from the line after the "with" statement to its last line
InnerLocks(b) ==
    IF b \in Blocks
    THEN LocksTaken(BlockSpan(b)[1] + 1, BlockSpan(b)[2], Cardinality(Functions))
    ELSE {}

\* where a thread goes from a position: for a block, after its last line or by
\* an exception raised inside it
After(b) ==
    CASE b = "idle" -> {"w166"}                      \* 126: job_queue.get() returns
      [] b = "w166" -> {"w172", "w130"}              \* 166-170; KeyError -> _worker's except
      [] b = "w172" -> {"w175", "w181", "w130"}      \* 172-174: load_data, the gate
      [] b = "w175" -> {"idle"}                      \* 175-179: return
      [] b = "w181" -> {"w184", "w130"}              \* 181-182: mkdir; OSError -> _worker's except
      [] b = "w184" -> {"w187", "w130"}              \* 184-185; KeyError -> _worker's except
      [] b = "w187" -> {"w195", "w130"}              \* 187-192: build_ydl_args, print
      [] b = "w195" -> {"w202", "w239", "w257", "w264"}  \* 195-230: Popen, next line, wait
      [] b = "w202" -> {"w195", "w264"}              \* 202-226
      [] b = "w239" -> {"w244", "w264"}              \* 239-243
      [] b = "w244" -> {"idle", "w264"}              \* 244-255
      [] b = "w257" -> {"idle", "w264"}              \* 257-261
      [] b = "w264" -> {"idle", "w130"}              \* 264-267; KeyError -> _worker's except
      [] b = "w130" -> {"idle"}                      \* 130-134
      [] b = "h518" -> {"h524", "idle"}             \* 518-522
      [] b = "h524" -> {"h530", "idle"}             \* 524-529: fetch_playlist_info
      [] b = "h541" -> {"h547", "idle"}             \* 541-545
      [] b = "h547" -> {"h551", "idle"}             \* 547-550: fetch_playlist_info
      [] b = "h566" -> {"h151", "idle"}             \* 566-568: load_data without a lock
      [] b = "h151" -> {"h162"}                      \* 151-161
      [] b = "h162" -> {"h151", "idle"}             \* 162, 569: put, next video
      [] OTHER -> {"idle"}                          \* the one-block requests

\* the first position of each request (do_GET, do_POST, do_DELETE)
Requests ==
    {"h461", "h484", "h508", "h518", "h541", "h566", "h574", "h581", "h595",
     "h626", "h638"}

Pos(t) == IF t = RequestThread THEN hpc ELSE wpc[t]

Owner(l) == IF l = "jobs_lock" THEN jobs_lock ELSE data_lock

Held(t) == {l \in {"jobs_lock", "data_lock"} : Owner(l) = t}

\* the locks thread t has to take next at its position: the block's own lock
\* first, then the locks taken inside the block (threading.Lock is not
\* reentrant: a thread that asks for the lock of its own block again waits)
Needed(t) ==
    IF BlockLock(Pos(t)) = "none" THEN {}
    ELSE IF BlockLock(Pos(t)) \notin Held(t) THEN {BlockLock(Pos(t))}
    ELSE InnerLocks(Pos(t)) \ (Held(t) \ {BlockLock(Pos(t))})

datavars == <<jobs, job_queue, nextJob, playlists, dataOk, nextPl, wjob, wout,
              wlines, wexc, wdata, procs, hpl, hcopy, hvids, hjob, wasRunning,
              dequeued, saves>>

\* "with lock:" entered: threading.Lock.acquire returns when the lock is free
Acquire(t) ==
    /\ \E l \in Needed(t) :
        /\ Owner(l) = Unlocked
        /\ jobs_lock' = IF l = "jobs_lock" THEN t ELSE jobs_lock
        /\ data_lock' = IF l = "data_lock" THEN t ELSE data_lock
    /\ UNCHANGED <<wpc, hpc, datavars>>

\* a thread goes on: out of the block it is inside, which releases the locks
\* of the "with" statements that end there, or along the code between two
\* blocks; the request thread at "idle" takes the next request
Proceed(t) ==
    /\ Needed(t) = {}
    /\ \E b \in (IF t = RequestThread /\ hpc = "idle"
                  THEN Requests ELSE After(Pos(t))) :
        IF t = RequestThread
        THEN hpc' = b /\ UNCHANGED wpc
        ELSE wpc' = [wpc EXCEPT ![t] = b] /\ UNCHANGED hpc
    /\ LET ending == {BlockLock(Pos(t))} \cup InnerLocks(Pos(t))
       IN /\ jobs_lock' = IF jobs_lock = t /\ "jobs_lock" \in ending
                          THEN Unlocked ELSE jobs_lock
          /\ data_lock' = IF data_lock = t /\ "data_lock" \in ending
                          THEN Unlocked ELSE data_lock
    /\ UNCHANGED datavars

LockInit == InitFor(Workers)

LockNext == \E t \in Threads : Acquire(t) \/ Proceed(t)

LockSpec == LockInit /\ [][LockNext]_vars

\* ------------------------------------------------------------- claims
Terminal == {"done", "error"}

StatusOf(js, id) == IF HasJob(js, id) THEN GetJob(js, id).status ELSE "absent"

Queued(js) == {i \in 1..Len(js) : js[i].status = "queued"}

Running(js) == {i \in 1..Len(js) : js[i].status = "running"}

\* C1: once a job's status is done or error, no later step changes it while the
\* job is in the table (a done job is never set to error afterwards).
C1_TerminalStatusIsFinal ==
    [][\A i \in 1..Len(jobs) :
         (jobs[i].status \in Terminal /\ HasJob(jobs', jobs[i].id))
            => GetJob(jobs', jobs[i].id).status = jobs[i].status]_vars

\* C2: status moves only along queued -> running -> {done, error}: a job that
\* has not been seen running is queued (so it was created queued and has not
\* jumped to done or error), and a job that has been seen running is not queued.
C2_StatusOrder ==
    \A i \in 1..Len(jobs) :
        /\ jobs[i].status \in {"queued", "running", "done", "error"}
        /\ jobs[i].id \notin wasRunning => jobs[i].status = "queued"
        /\ jobs[i].id \in wasRunning => jobs[i].status # "queued"

\* C2 witness: a job that reached done and a job that reached error by the
\* missing-playlist path
C2_Witness ==
    /\ \E i \in 1..Len(jobs) : jobs[i].status = "done"
    /\ \E i \in 1..Len(jobs) :
        jobs[i].status = "error" /\ jobs[i].error = "Playlist not found"

\* C3: with a pool of N workers at most N jobs are running and at most N
\* subprocesses are live.
C3_AtMostNLive ==
    /\ Cardinality(Running(jobs)) <= Cardinality(SoloWorkers)
    /\ Cardinality(procs) <= Cardinality(SoloWorkers)

\* C4: every done job whose playlist is in the catalog has its video there
\* marked downloaded with the job's file as file_path.
C4_DoneJobReconciled ==
    \A i \in 1..Len(jobs) :
        (jobs[i].status = "done" /\ jobs[i].playlist_id \in DOMAIN playlists)
            => LET vs == playlists[jobs[i].playlist_id].videos
                   k == VideoIdx(vs, jobs[i].video_id)
               IN k # 0 => (vs[k].downloaded /\ vs[k].file_path = jobs[i].file)

\* worker w calls save_data (line 255) from its reconciliation block
SaveCalled(w) == wpc[w] # "save" /\ wpc'[w] = "save"

\* the reconciliation block of worker w comes to its save_data call with the
\* job in the table and a video with the job's video_id in the job's playlist
\* (data.json parsed at line 245, or the block had ended there)
ReconcileSaves(w) ==
    /\ SaveCalled(w)
    /\ HasJob(jobs, wjob[w])
    /\ GetJob(jobs, wjob[w]).playlist_id \in DOMAIN playlists'
    /\ VideoIdx(playlists'[GetJob(jobs, wjob[w]).playlist_id].videos,
                GetJob(jobs, wjob[w]).video_id) # 0

\* C4 (amended): at the end of a reconciliation block that saves the catalog,
\* the job's video is marked downloaded with the job's file as file_path.
C4_ReconcileWritesResult ==
    [][\A w \in DOMAIN wpc :
         ReconcileSaves(w)
            => LET j == GetJob(jobs, wjob[w])
                   vs == playlists'[j.playlist_id].videos
                   k == VideoIdx(vs, j.video_id)
               IN /\ j.status = "done"
                  /\ vs[k].downloaded
                  /\ vs[k].file_path = j.file]_vars

\* C4 witness: a done job whose worker is past the reconciliation and whose
\* video carries the job's (non-null) file
C4_Witness ==
    \E i \in 1..Len(jobs) :
        /\ jobs[i].status = "done"
        /\ jobs[i].file # NoFile
        /\ \A w \in DOMAIN wjob : wjob[w] # jobs[i].id
        /\ jobs[i].playlist_id \in DOMAIN playlists
        /\ LET vs == playlists[jobs[i].playlist_id].videos
               k == VideoIdx(vs, jobs[i].video_id)
           IN k # 0 /\ vs[k].downloaded /\ vs[k].file_path = jobs[i].file

\* C5: every job with status done has a non-null file.
C5_DoneHasFile ==
    \A i \in 1..Len(jobs) : jobs[i].status = "done" => jobs[i].file # NoFile

\* C6: every video of every playlist is downloaded if and only if its file_path
\* is non-null.
C6_DownloadedIffFilePath ==
    \A p \in DOMAIN playlists :
        \A k \in 1..Len(playlists[p].videos) :
            playlists[p].videos[k].downloaded <=> (playlists[p].videos[k].file_path # NoFile)

\* C7: the save of a sync or of an add-video leaves the catalog as that one
\* operation changes the catalog it finds at the save (an atomic
\* load-modify-save), so nothing written since the request began is undone.
C7_AtomicLoadModifySave ==
    [][/\ (hpc = "sync" /\ hpc' = "save" /\ playlists' # playlists)
            => /\ hpl \in DOMAIN playlists
               /\ \E ids \in RemoteLists :
                    playlists' = PutPlaylist(playlists, hpl,
                                    [videos |-> SyncVideos(playlists[hpl].videos, ids)])
       /\ (hpc = "video_add" /\ hpc' = "save" /\ playlists' # playlists)
            => /\ hpl \in DOMAIN playlists
               /\ \E ids \in RemoteLists :
                    playlists' = PutPlaylist(playlists, hpl,
                                    [videos |-> AddVideos(playlists[hpl].videos, ids)])]_vars

\* C8: the queue_pos values of the queued jobs are exactly 1..k, k the number of
\* queued jobs, in every state outside the jobs_lock blocks.
C8_QueuePositionsContiguous ==
    /\ {jobs[i].queue_pos : i \in Queued(jobs)} = 1..Cardinality(Queued(jobs))
    /\ \A i, k \in Queued(jobs) : jobs[i].queue_pos = jobs[k].queue_pos => i = k

\* C8 witness: a job enqueued at position 2 is queued at position 1 once the job
\* before it is running
C8_Witness ==
    \E i, k \in 1..Len(jobs) :
        /\ i < k
        /\ jobs[i].status = "running"
        /\ jobs[k].status = "queued"
        /\ jobs[k].queue_pos = 1
        /\ jobs[k].id \in Range(job_queue)

\* the admission queue hands the ids out in the order add_job issued them
DequeuedInOrder ==
    \A i, k \in 1..Len(dequeued) : i < k => dequeued[i] < dequeued[k]

\* C9: a job enqueued earlier is dequeued earlier, and no job is running while a
\* job enqueued before it still has status queued.
C9_NoOvertaking ==
    /\ DequeuedInOrder
    /\ \A i, k \in 1..Len(jobs) :
        (jobs[i].id < jobs[k].id /\ jobs[i].status = "queued")
            => jobs[k].status # "running"

\* C9 (amended): a job enqueued earlier is dequeued earlier, and no job is
\* running while a job enqueued before it is still on the admission queue.
C9_FifoAdmission ==
    /\ DequeuedInOrder
    /\ \A b \in Range(dequeued) : \A a \in Range(job_queue) : b < a
    /\ \A k \in 1..Len(jobs) :
        jobs[k].status = "running" => \A a \in Range(job_queue) : jobs[k].id < a

\* C9 witness: the later job is running while the earlier one, already taken
\* from the queue by another worker, still has status queued
C9_Witness ==
    \E i, k \in 1..Len(jobs) :
        /\ jobs[i].id < jobs[k].id
        /\ jobs[i].status = "queued"
        /\ jobs[k].status = "running"
        /\ jobs[i].id \in Range(dequeued)

\* job_queue.put(id) has been done
Enqueued(id) == id \in Range(job_queue) \/ id \in Range(dequeued)

\* the job was taken by a worker and has reached done or error (a job missing
\* from the table was removed by /api/jobs/clear, which removes terminal jobs)
Ended(id) ==
    /\ id \in Range(dequeued)
    /\ StatusOf(jobs, id) \in Terminal \cup {"absent"}

\* C10: every job put on the admission queue eventually reaches done or error.
\* Stated for the finitely many jobs of a run: again and again every enqueued
\* job has ended, which fails exactly when some enqueued job never ends.
C10_EveryJobEnds ==
    []<>(\A id \in 1..SoloJobs : Enqueued(id) => Ended(id))

\* worker w, waiting at line 244, is given data_lock
LockGranted(w) == ReconcileLoad(w) /\ UNCHANGED saves

\* C10 (amended): if a worker that waits for data_lock at its reconciliation
\* block, while the lock is released again and again, is given the lock at one
\* of these releases, then every job put on the admission queue eventually
\* reaches done or error.
C10_EveryJobEndsIfLockGranted ==
    (\A w \in SoloWorkers : SF_vars(LockGranted(w)))
        => []<>(\A id \in 1..SoloJobs : Enqueued(id) => Ended(id))

\* C10 witness: the first job failed by an exception raised outside _run_job's
\* try block (line 182 or 192), which _worker's except clause recorded, and the
\* worker then took the second job and ran it to done
C10_Witness ==
    /\ StatusOf(jobs, 1) = "error"
    /\ GetJob(jobs, 1).error = "OSError"
    /\ StatusOf(jobs, 2) = "done"
    /\ dequeued = <<1, 2>>
    /\ \A w \in DOMAIN wpc : wpc[w] = "idle"

\* C11: a step that moves a job to error leaves the record of every other job
\* of the table as it was, removes and adds no job, and leaves the admission
\* queue as it was.
C11_FailureIsolation ==
    [][\A i \in 1..Len(jobs) :
         (jobs[i].status # "error" /\ StatusOf(jobs', jobs[i].id) = "error")
            => /\ job_queue' = job_queue
               /\ Len(jobs') = Len(jobs)
               /\ \A k \in 1..Len(jobs) :
                    k # i => /\ HasJob(jobs', jobs[k].id)
                             /\ GetJob(jobs', jobs[k].id) = jobs[k]]_vars

\* C11 witness: a job has failed after its subprocess ran or could not be
\* started, while a job enqueued after it waits on the admission queue
C11_Witness ==
    \E i, k \in 1..Len(jobs) :
        /\ jobs[i].status = "error"
        /\ jobs[i].error \in {"ValueError", "FileNotFoundError", "yt-dlp error", "dest"}
        /\ jobs[k].status = "queued"
        /\ jobs[k].queue_pos = 1
        /\ jobs[k].id \in Range(job_queue)

\* worker w takes the step of lines 172-174: the load and the test of the gate
GateStep(w) == wpc[w] = "launch" /\ wpc'[w] # "launch"

\* C12: a job that reaches the validation gate while its playlist is not in the
\* catalog is found to lack its playlist and from there goes from running to
\* error with the message "Playlist not found" and a finish timestamp, and no
\* subprocess is launched for it; and a job receives the message "Playlist not
\* found" only after a gate step at which its playlist was absent from the
\* catalog.
C12_ValidationGate ==
    [][/\ \A w \in DOMAIN wpc :
            /\ (GateStep(w)
                    /\ GetJob(jobs, wjob[w]).playlist_id \notin DOMAIN playlists
                    /\ GetJob(jobs, wjob[w]).playlist_id \notin DOMAIN playlists')
                    => wpc'[w] = "missing"
            /\ (GateStep(w) /\ wpc'[w] = "missing")
                    => GetJob(jobs, wjob[w]).playlist_id \notin DOMAIN playlists
            /\ (wpc[w] = "missing" /\ wpc'[w] # "missing")
                    => /\ GetJob(jobs, wjob[w]).status = "running"
                       /\ GetJob(jobs', wjob[w]).status = "error"
                       /\ GetJob(jobs', wjob[w]).error = "Playlist not found"
                       /\ GetJob(jobs', wjob[w]).finished
                       /\ procs' = procs
                       /\ wjob[w] \notin procs'
                       /\ wpc'[w] = "idle"
       /\ \A i \in 1..Len(jobs') :
            (jobs'[i].error = "Playlist not found"
                /\ (HasJob(jobs, jobs'[i].id)
                        => GetJob(jobs, jobs'[i].id).error # "Playlist not found"))
                => \E w \in DOMAIN wpc :
                     wpc[w] = "missing" /\ wjob[w] = jobs'[i].id]_vars

\* worker w takes the step of lines 244-255
ReconcileTaken(w) == wpc[w] = "reconcile" /\ wpc'[w] # "reconcile"

\* worker w takes the step of lines 228-243: its subprocess has exited with
\* code 0 (the step of another exit code leaves the worker at the queue)
ExitZero(w) ==
    /\ wpc[w] = "stream"
    /\ wjob[w] \in procs
    /\ wjob[w] \notin procs'
    /\ wpc'[w] # "idle"

\* C13: when the subprocess of a job whose playlist has been deleted since the
\* gate exits with code 0, the job is set to done; and the reconciliation of
\* that job leaves the job done, returns the worker to the queue and leaves the
\* catalog as it was: the playlist is not created again and every other
\* playlist is untouched.
C13_DeletedPlaylistStillDone ==
    [][\A w \in DOMAIN wpc :
         /\ (ExitZero(w)
                /\ GetJob(jobs, wjob[w]).playlist_id \notin DOMAIN playlists)
                => /\ GetJob(jobs', wjob[w]).status = "done"
                   /\ wpc'[w] = "reconcile"
         /\ (ReconcileTaken(w) /\ HasJob(jobs, wjob[w])
                /\ GetJob(jobs, wjob[w]).playlist_id \notin DOMAIN playlists)
                => /\ GetJob(jobs, wjob[w]).status = "done"
                   /\ jobs' = jobs
                   /\ playlists' = playlists
                   /\ wjob'[w] = 0]_vars

\* worker w takes a step of _worker or _run_job
StepOf(w) ==
    wpc'[w] # wpc[w] \/ wlines'[w] # wlines[w] \/ wdata'[w] # wdata[w]

\* some worker takes a step of _worker or _run_job
WorkerStep == \E w \in DOMAIN wpc : StepOf(w)

\* the positions of a worker inside the reconciliation block, before save_data
InBlock == {"match", "quality", "audio"}

\* the two video lists differ at most in downloaded, file_path, quality and
\* audio_only of one video, whose id is vid
OnlyResultOfOneVideo(before, after, vid) ==
    /\ Len(after) = Len(before)
    /\ \A k \in 1..Len(before) :
        \/ after[k] = before[k]
        \/ /\ before[k].id = vid
           /\ after[k].id = vid
           /\ \A m \in 1..Len(before) : m # k => after[m] = before[m]

\* C14: a job with status error has never written the catalog, and a done job
\* whose worker has left it has written the catalog exactly once.
C14_WritesExactlyOnceOnSuccess ==
    \A i \in 1..Len(jobs) :
        /\ jobs[i].status = "error" => CopiesIn(jobs[i].id, saves) = 0
        /\ (jobs[i].status = "done" /\ \A w \in DOMAIN wjob : wjob[w] # jobs[i].id)
                => CopiesIn(jobs[i].id, saves) = 1

\* C14 (amended): a worker writes the catalog only by the save_data call of
\* the reconciliation block of a job that is done, at most once per job, and a
\* job with status error has written nothing.  The block comes to that call
\* exactly when it runs to its end: data.json is readable and holds the job's
\* playlist when the block is entered, and the job is in the table at every
\* line of the block that reads it; a block that finds the playlist gone, or
\* the job gone at one of these lines, writes nothing.  What is written differs
\* from the catalog on disk only in downloaded, file_path, quality and
\* audio_only of the one video of the job's playlist with the job's video_id.
C14_WritesOnlyOnSuccess ==
    [][/\ (WorkerStep /\ ~\E w \in DOMAIN wpc : SaveCalled(w))
            => (playlists' = playlists /\ saves' = saves)
       /\ \A w \in DOMAIN wpc :
            /\ SaveCalled(w)
                => /\ wpc[w] \in {"reconcile"} \cup InBlock
                   /\ HasJob(jobs, wjob[w])
                   /\ GetJob(jobs, wjob[w]).status = "done"
                   /\ jobs' = jobs
                   /\ CopiesIn(wjob[w], saves) = 0
                   /\ CopiesIn(wjob[w], saves') = 1
                   /\ dataOk
                        => LET j == GetJob(jobs, wjob[w])
                           IN /\ DOMAIN playlists' = DOMAIN playlists
                              /\ j.playlist_id \in DOMAIN playlists
                              /\ \A p \in DOMAIN playlists :
                                    p # j.playlist_id => playlists'[p] = playlists[p]
                              /\ OnlyResultOfOneVideo(playlists[j.playlist_id].videos,
                                                      playlists'[j.playlist_id].videos,
                                                      j.video_id)
            /\ ReconcileTaken(w)
                => IF HasJob(jobs, wjob[w]) /\ dataOk
                        /\ GetJob(jobs, wjob[w]).playlist_id \in DOMAIN playlists
                   THEN wpc'[w] \in {"match", "save"}
                   ELSE wpc'[w] \in {"idle", "run_except"}
            /\ (wpc[w] \in InBlock /\ StepOf(w))
                => IF HasJob(jobs, wjob[w])
                   THEN /\ wpc'[w] \in InBlock \cup {"save"}
                        /\ wpc[w] = "audio" => wpc'[w] = "save"
                   ELSE /\ wpc'[w] = "run_except"
                        /\ data_lock' = Unlocked
       /\ \A i \in 1..Len(jobs') :
            /\ CopiesIn(jobs'[i].id, saves') <= 1
            /\ jobs'[i].status = "error" => CopiesIn(jobs'[i].id, saves') = 0]_vars

\* C14 witness: a done job wrote once; its video carries the result, the other
\* video of its playlist and the earlier playlist are as they were
C14_Witness ==
    \E i \in 1..Len(jobs) :
        /\ jobs[i].status = "done"
        /\ jobs[i].file # NoFile
        /\ CopiesIn(jobs[i].id, saves) = 1
        /\ jobs[i].playlist_id \in DOMAIN playlists
        /\ LET vs == playlists[jobs[i].playlist_id].videos
           IN /\ Len(vs) = 2
              /\ \E k, m \in 1..2 :
                    /\ vs[k].id = jobs[i].video_id
                    /\ vs[k].downloaded
                    /\ vs[k].file_path = jobs[i].file
                    /\ vs[m] = NewVideo(vs[m].id)
        /\ EarlierPlaylist \in DOMAIN playlists
        /\ playlists[EarlierPlaylist] = EarlierCatalog[EarlierPlaylist]

\* the lock thread t is waiting for, "none" when it is not waiting
Wants(t) ==
    IF Needed(t) = {} THEN "none" ELSE CHOOSE l \in Needed(t) : TRUE

\* C15: no thread holds jobs_lock and data_lock at the same time, and no thread
\* waits for a lock whose holder is itself waiting for a lock (so whoever holds
\* a lock can always reach the end of its block and release it: no deadlock).
C15_LocksNeverNested ==
    /\ \A t \in Threads : ~(jobs_lock = t /\ data_lock = t)
    /\ \A t \in Threads :
        (Wants(t) # "none" /\ Owner(Wants(t)) # Unlocked)
            => Wants(Owner(Wants(t))) = "none"

\* C15 witness: a worker is inside the reconciliation block, holding data_lock,
\* while the request thread is inside /api/jobs/clear, holding jobs_lock
C15_Witness ==
    /\ \E w \in Workers : wpc[w] = "w244" /\ data_lock = w
    /\ hpc = "h581"
    /\ jobs_lock = RequestThread

\* the log after one more line: the line appended, and the oldest line dropped
\* when the log was full
Rolled(old, new) ==
    \/ /\ Len(old) < 60
       /\ Len(new) = Len(old) + 1
       /\ SubSeq(new, 1, Len(old)) = old
    \/ /\ Len(old) = 60
       /\ Len(new) = 60
       /\ SubSeq(new, 1, 59) = SubSeq(old, 2, 60)

\* C16: the log of a job never holds more than 60 lines; every line the job's
\* subprocess prints is appended to it, the lines before it kept in their
\* order, and when the log holds 60 lines the oldest one is dropped for the new
\* one; nothing else changes a log.
C16_RollingLog ==
    [][\A i \in 1..Len(jobs') :
         /\ Len(jobs'[i].log) <= 60
         /\ IF HasJob(jobs, jobs'[i].id)
            THEN LET old == GetJob(jobs, jobs'[i].id).log
                     new == jobs'[i].log
                 IN IF \E w \in DOMAIN wjob :
                            wjob[w] = jobs'[i].id /\ wlines'[w] = wlines[w] + 1
                    THEN /\ Rolled(old, new)
                         /\ \E w \in DOMAIN wjob :
                              /\ wjob[w] = jobs'[i].id
                              /\ new[Len(new)] \in OutputLines(wlines'[w])
                    ELSE new = old
            ELSE jobs'[i].log = <<>>]_vars

\* C16 witness: after 61 lines the log holds lines 2 to 61: the first line is
\* gone and the second line is now the oldest
C16_Witness ==
    \E w \in DOMAIN wjob :
        /\ wlines[w] = 61
        /\ HasJob(jobs, wjob[w])
        /\ Len(GetJob(jobs, wjob[w]).log) = 60
        /\ GetJob(jobs, wjob[w]).log[1] = "indented"
        /\ GetJob(jobs, wjob[w]).log[60] = "blank"

\* worker w takes the step of lines 228 and 256-261: its subprocess has exited
\* with a code other than 0
ExitFailTaken(w) ==
    /\ wpc[w] = "stream"
    /\ wpc'[w] = "idle"
    /\ wjob[w] \in procs
    /\ wjob[w] \notin procs'
    /\ wlines' = [wlines EXCEPT ![w] = 0]
    /\ HasJob(jobs', wjob[w])

\* positions of the log lines that are non-blank after stripping
NonBlank(log) == {k \in 1..Len(log) : Strip(log[k]) # "blank"}

\* the most recent of them
LastNonBlank(log) == CHOOSE k \in NonBlank(log) : \A m \in NonBlank(log) : m <= k

\* C20: when the subprocess exits with a non-zero code the job becomes error
\* with finished set, and its error message is the most recent log line that is
\* non-blank after stripping, as the log holds it, or "yt-dlp error" when the
\* log has no such line.
C20_ErrorIsLastLogLine ==
    [][\A w \in DOMAIN wpc :
         ExitFailTaken(w)
            => LET log == GetJob(jobs, wjob[w]).log
                   j == GetJob(jobs', wjob[w])
               IN /\ j.status = "error"
                  /\ j.finished
                  /\ j.error = IF NonBlank(log) = {} THEN "yt-dlp error"
                                ELSE log[LastNonBlank(log)]]_vars

\* C20 (amended): the same, the error message being that line with the white
\* space around it stripped.
C20_ErrorIsStrippedLastLine ==
    [][\A w \in DOMAIN wpc :
         ExitFailTaken(w)
            => LET log == GetJob(jobs, wjob[w]).log
                   j == GetJob(jobs', wjob[w])
               IN /\ GetJob(jobs, wjob[w]).status = "running"
                  /\ j.status = "error"
                  /\ j.finished
                  /\ j.log = log
                  /\ j.error = IF NonBlank(log) = {} THEN "yt-dlp error"
                                ELSE Strip(log[LastNonBlank(log)])]_vars

\* C20 witness: a failed job whose log is a plain line, an indented line and
\* blank lines has the indented line, stripped, as its message; its process
\* has ended
C20_Witness ==
    \E i \in 1..Len(jobs) :
        /\ jobs[i].status = "error"
        /\ jobs[i].finished
        /\ Len(jobs[i].log) >= 4
        /\ jobs[i].log[1] = "plain"
        /\ jobs[i].log[2] = "indented"
        /\ jobs[i].log[Len(jobs[i].log)] = "blank"
        /\ jobs[i].error = "unindented"
        /\ jobs[i].id \notin procs

\* C17: a load of a data.json that does not parse returns the empty catalog and
\* raises nothing: a job that reaches the gate while the file is malformed finds
\* no playlist and goes on to the gate's "Playlist not found", as it does on an
\* empty catalog.
C17_MalformedLoadsEmpty ==
    [][\A w \in DOMAIN wpc :
         (GateStep(w) /\ ~dataOk)
            => /\ wpc'[w] = "missing"
               /\ wexc'[w] = None]_vars

\* the request thread takes the step of a sync that saves, and the catalog it
\* leaves is not the one it found
SyncSaved == hpc = "sync" /\ hpc' = "save" /\ playlists' # playlists

\* C18: a sync keeps, for every video id the playlist holds before the save and
\* the remote still reports, the entry the catalog holds for it (downloaded,
\* file_path, quality, audio_only); the ids new to the playlist are added not
\* downloaded and without a path; the order is the one the remote reports.
C18_SyncPreservesDownloadState ==
    [][(SyncSaved /\ hpl \in DOMAIN playlists)
        => LET before == playlists[hpl].videos
               after == playlists'[hpl].videos
           IN /\ \A k \in 1..Len(after) :
                    IF LastVideoIdx(before, after[k].id) # 0
                    THEN after[k] = before[LastVideoIdx(before, after[k].id)]
                    ELSE after[k] = NewVideo(after[k].id)
              /\ [k \in 1..Len(after) |-> after[k].id] \in RemoteLists]_vars

\* positions of the jobs of the table that the step removes
Removed == {i \in 1..Len(jobs) : ~HasJob(jobs', jobs[i].id)}

\* C19: a step removes jobs from the table only as /api/jobs/clear does: it is
\* a step of the request thread, the jobs removed are exactly the jobs that are
\* done or error, their number is the count returned, the other jobs keep
\* their records and their order, and neither the queue nor a worker is
\* touched; so a queued or running job is never removed.
C19_OnlyClearRemovesJobs ==
    [][/\ Removed # {}
            => /\ hpc = "idle"
               /\ Removed = {i \in 1..Len(jobs) : jobs[i].status \in Terminal}
               /\ ClearCount(jobs) = Cardinality(Removed)
               /\ Len(jobs') = Len(jobs) - Cardinality(Removed)
               /\ \A i \in (1..Len(jobs)) \ Removed :
                    /\ GetJob(jobs', jobs[i].id) = jobs[i]
                    /\ \A k \in (1..Len(jobs)) \ Removed :
                        i < k => JobIdx(jobs', jobs[i].id) < JobIdx(jobs', jobs[k].id)
               /\ UNCHANGED <<job_queue, wvars, procs, playlists>>
       /\ \A i \in 1..Len(jobs) :
            jobs[i].status \in {"queued", "running"} => HasJob(jobs', jobs[i].id)]_vars

\* C19 witness: the first job has run and has been cleared while the second,
\* enqueued with it, is still queued, now first in the table
C19_Witness ==
    /\ 1 \in Range(dequeued)
    /\ ~HasJob(jobs, 1)
    /\ Len(jobs) = 1
    /\ jobs[1].id = 2
    /\ jobs[1].status = "queued"
    /\ jobs[1].queue_pos = 1
    /\ 2 \in Range(job_queue)

\* a line that matches nothing the runner looks for: no progress match, no
\* "[download]", "[merger]" or "[extractaudio]" marker, no destination
Unmatched(line) ==
    /\ ~Parsed(line)
    /\ ~ParseRaises(line)
    /\ ~HasDownloadTag(line)
    /\ ~HasMergerTag(line)
    /\ ~HasExtractTag(line)
    /\ ~HasDest(line)

\* worker w read a line of its job's output and the runner went on
LineRead(w) == wpc[w] = "stream" /\ wlines'[w] = wlines[w] + 1

\* C21: an output line that matches no recognised pattern is appended to the
\* rolling log and leaves the job's status, phase, progress, speed, eta and size
\* as they were (the job is still running, not in error), and the runner goes on
\* reading.
C21_UnmatchedLineOnlyLogged ==
    [][\A w \in DOMAIN wpc :
        LineRead(w) =>
            LET old == GetJob(jobs, wjob[w])
                new == GetJob(jobs', wjob[w])
                line == new.log[Len(new.log)]
            IN /\ HasJob(jobs, wjob[w]) /\ HasJob(jobs', wjob[w])
               /\ new.log # <<>>
               /\ Unmatched(line) =>
                    /\ new.log = CapLog(Append(old.log, line))
                    /\ new.status = old.status /\ new.status = "running"
                    /\ new.phase = old.phase
                    /\ new.progress = old.progress
                    /\ new.speed = old.speed
                    /\ new.eta = old.eta
                    /\ new.size = old.size
                    /\ new.error = None
                    /\ wpc'[w] = "stream"]_vars

\* C21 witness: a running job whose last line is unmatched and holds the word
\* "audio", after a progress line: the job still shows the progress line's
\* phase, percentage, speed, eta and size
C21_Witness ==
    \E i \in 1..Len(jobs) :
        /\ jobs[i].status = "running"
        /\ Len(jobs[i].log) = 2
        /\ jobs[i].log[1] = "progress"
        /\ jobs[i].log[2] = "audio"
        /\ Unmatched(jobs[i].log[2])
        /\ jobs[i].phase = "downloading"
        /\ jobs[i].progress = 42
        /\ jobs[i].speed = "512.00KiB/s"
        /\ jobs[i].eta = "00:20"
        /\ jobs[i].size = "10.00MiB"

\* C22: every job whose status is done has progress 100, phase done, empty
\* speed and eta, and started and finished timestamps; every job whose status is
\* error has a finished timestamp and an error message.
C22_TerminalJobFields ==
    \A i \in 1..Len(jobs) :
        /\ jobs[i].status = "done" =>
                /\ jobs[i].progress = 100
                /\ jobs[i].phase = "done"
                /\ jobs[i].speed = ""
                /\ jobs[i].eta = ""
                /\ jobs[i].started
                /\ jobs[i].finished
        /\ jobs[i].status = "error" =>
                /\ jobs[i].finished
                /\ jobs[i].error # None

\* C22 witness: a done job whose output ended with a progress line (42 %, with a
\* speed and an eta), its worker past the success block
C22_Witness ==
    \E i \in 1..Len(jobs) :
        /\ jobs[i].status = "done"
        /\ jobs[i].log # <<>>
        /\ jobs[i].log[Len(jobs[i].log)] = "progress"
        /\ jobs[i].size = "10.00MiB"
        /\ jobs[i].progress = 100
        /\ jobs[i].speed = ""
        /\ \A w \in DOMAIN wjob : wjob[w] = jobs[i].id => wpc[w] = "reconcile"

\* C23: in every reachable state a job's file is set only if its status is done
\* and its error is set only if its status is error; no job has both a file and
\* an error message.
C23_FileXorError ==
    \A i \in 1..Len(jobs) :
        /\ jobs[i].file # NoFile => jobs[i].status = "done"
        /\ jobs[i].error # None => jobs[i].status = "error"
        /\ ~(jobs[i].file # NoFile /\ jobs[i].error # None)

\* the job with this id is in the table with this status
InTableAs(id, status) ==
    \E i \in 1..Len(jobs) : jobs[i].id = id /\ jobs[i].status = status

\* C24: every job id is put on the admission queue exactly once: the ids on the
\* queue and the ids dequeued so far are, without repetition, the ids issued
\* (but for the one between add_job's lock block and its put); an id is held by
\* at most one worker; an id on the queue or just dequeued is in the job table
\* with status queued, and while a worker is between the first lock block and
\* the exit of the subprocess, or in an except clause an exception raised
\* between the two sent it to, its job is in the table with status running,
\* whatever /api/jobs/clear has removed.
C24_EnqueuedOnceAndFound ==
    /\ Range(job_queue) \cup Range(dequeued) = (1..(nextJob - 1)) \ {hjob}
    /\ Len(job_queue) + Len(dequeued) = (nextJob - 1) - (IF hjob = 0 THEN 0 ELSE 1)
    /\ \A w1, w2 \in DOMAIN wjob :
        (w1 # w2 /\ wjob[w1] # 0) => wjob[w1] # wjob[w2]
    /\ \A k \in 1..Len(job_queue) : InTableAs(job_queue[k], "queued")
    /\ \A w \in DOMAIN wpc :
        /\ wpc[w] = "start" => InTableAs(wjob[w], "queued")
        /\ wpc[w] \in {"launch", "missing", "mkdir", "snapshot", "args", "popen",
                       "stream"}
                => InTableAs(wjob[w], "running")
        /\ (wpc[w] = "run_except" /\ wexc[w] \in {"FileNotFoundError", "ValueError"})
                => InTableAs(wjob[w], "running")
        /\ (wpc[w] = "worker_except" /\ wexc[w] \in {"JSONDecodeError", "OSError"})
                => InTableAs(wjob[w], "running")

\* C24 witness: /api/jobs/clear has removed a job that was run, and a worker has
\* just dequeued another job, which is in the table
C24_Witness ==
    /\ \E id \in Range(dequeued) : ~HasJob(jobs, id)
    /\ \E w \in DOMAIN wpc : wpc[w] = "start" /\ HasJob(jobs, wjob[w])

\* C25: among the jobs on the admission queue, queue_pos increases in the order
\* in which the queue will hand them to workers (the head has the smallest
\* queue_pos), in every state the workers and the add_job calls of the request
\* thread can reach.
C25_QueuePosFollowsAdmission ==
    \A a, b \in 1..Len(job_queue) :
        a < b => /\ HasJob(jobs, job_queue[a])
                 /\ HasJob(jobs, job_queue[b])
                 /\ GetJob(jobs, job_queue[a]).queue_pos
                        < GetJob(jobs, job_queue[b]).queue_pos

\* C25 witness: two jobs wait on the admission queue, the head with queue_pos
\* 1 and the job behind it with queue_pos 2
C25_Witness ==
    /\ Len(job_queue) = 2
    /\ InTableAs(job_queue[1], "queued")
    /\ InTableAs(job_queue[2], "queued")
    /\ GetJob(jobs, job_queue[1]).queue_pos = 1
    /\ GetJob(jobs, job_queue[2]).queue_pos = 2
====
